---- MODULE Spec2Model ----
(***************************************************************************)
(* A model of the notebooks of SemanticKernel-RampUp-Notebooks:            *)
(*   - Notebook 1 (Quick Start): LightsPlugin                              *)
(*   - Notebook 3 (Content Filters): content_blocking_filter, ChatPlugin,  *)
(*     test_scenarios                                                      *)
(*   - Notebook 5 (Vector Stores): chunk_text,                             *)
(*     create_and_populate_vector_store, search_documents,                 *)
(*     perform_rag_query, cleanup_collection, process_pdfs_from_folder     *)
(*   - Notebook 2 (AI Services): the cells that build the chat histories   *)
(*   - Notebook 4 (Observability): set_up_metrics and the metric views     *)
(* Each notebook is a state machine of its own; a specification per        *)
(* notebook runs its operations and leaves the other notebooks' state      *)
(* at rest.                                                                *)
(***************************************************************************)
EXTENDS Integers, Sequences, FiniteSets, TLC

VARIABLES
    \* Notebook 1: LightsPlugin
    lights,         \* LightsPlugin.lights, the list of light records
    ret,            \* the value returned by the last plugin call
    calls,          \* history: the plugin calls made so far, in order
    \* Notebook 5: chunk_text
    text,           \* the text argument, a sequence of characters
    chunk_size,     \* the chunk_size argument
    overlap,        \* the overlap argument
    start,          \* the local variable start
    chunks,         \* the local list chunks (the value returned, once done)
    starts,         \* history: the value of start when each chunk was cut
    cpc,            \* where the call is: "call", "loop" or "done"
    \* Notebook 3: kernel.invoke of ChatPlugin.Chat behind content_blocking_filter
    user_input,     \* the "input" argument, a sequence of characters
    chat_history,   \* the "chat_history" argument, a sequence of messages
    context_result, \* context.result: the value of the FunctionResult, or None
    result_set_by,  \* history: who set context.result ("filter", "function" or None)
    next_calls,     \* history: how many times the filter called next
    chat_return,    \* history: the value ChatPlugin.chat returned, or None
    llm_requests,   \* history: the chat histories sent to the chat-completion service
    printed,        \* the label test_scenarios printed, or None
    fpc,            \* where the invocation is
    \* Notebook 5: the vector store and the RAG query
    document_chunks,    \* the global document_chunks, a list of DocumentChunk records
    vector_collection,  \* the global vector_collection
    chat_configured,    \* whether the service "azure_openai_chat" was added to the kernel
    \* what the last operation did (each operation overwrites all of these)
    last_op,            \* history: the last operation, its arguments and how it ended
    sdk_calls,          \* history: the collection calls create_and_populate_vector_store made
    upserted_keys,      \* the keys its upsert returned
    search_ret,         \* the value search_documents returned
    rag_request,        \* history: the chat history the RAG query sent, <<>> if none
    \* Notebook 5: process_pdfs_from_folder
    folder,         \* the data folder: whether it exists and the files in it
    pdf_files,      \* the local list pdf_files
    pdf_idx,        \* how many entries of pdf_files the for loop has taken
    pdf_chunks,     \* the local list document_chunks (the value returned, once done)
    page_log,       \* history: per page chunked, its document, number and chunk count
    ppc,            \* where the call is: "call", "files" or "done"
    \* Notebook 2: the cells of Steps 4 and 5, run from top to bottom
    nb_cell,        \* the cell to run next, "end" after the last, "failed" after an error
    nb_chat_history,    \* the notebook's global chat_history
    nb_response,        \* the global response (assistant_response in Step 5)
    nb_stream,          \* the chunks the streaming response has yet to yield
    nb_outputs,         \* what the cells printed, in order
    \* Notebook 4: the metrics pipeline
    meter_provider, \* the global meter provider
    instruments,    \* the names of the instruments created so far
    measured,       \* the instruments that recorded a measurement since the last export
    exported        \* the metric names of the last export to Azure Monitor

lightsVars == <<lights, ret, calls>>
chunkVars == <<text, chunk_size, overlap, start, chunks, starts, cpc>>
filterVars == <<user_input, chat_history, context_result, result_set_by, next_calls,
                chat_return, llm_requests, printed, fpc>>

storeVars == <<document_chunks, vector_collection, chat_configured, sdk_calls,
               upserted_keys, last_op, search_ret, rag_request>>

pdfVars == <<folder, pdf_files, pdf_idx, pdf_chunks, page_log, ppc>>
richVars == <<nb_cell, nb_chat_history, nb_response, nb_stream, nb_outputs>>
metricVars == <<meter_provider, instruments, measured, exported>>

vars == <<lights, ret, calls, text, chunk_size, overlap, start, chunks, starts, cpc,
          user_input, chat_history, context_result, result_set_by, next_calls,
          chat_return, llm_requests, printed, fpc,
          document_chunks, vector_collection, chat_configured, sdk_calls,
          upserted_keys, last_op, search_ret, rag_request,
          folder, pdf_files, pdf_idx, pdf_chunks, page_log, ppc,
          nb_cell, nb_chat_history, nb_response, nb_stream, nb_outputs,
          meter_provider, instruments, measured, exported>>

\* Python's None
None == "None"

(***************************************************************************)
(* Notebook 1: LightsPlugin                                                *)
(***************************************************************************)

\* the number of plugin calls of a run
MaxCalls == 3
\* the ids the caller may pass are 0..MaxLightId (0 and MaxLightId name no light)
MaxLightId == 4

LightIds == 0..MaxLightId

\* the class attribute LightsPlugin.lights
InitialLights ==
    << [id |-> 1, name |-> "Table Lamp",  is_on |-> FALSE],
       [id |-> 2, name |-> "Porch light", is_on |-> FALSE],
       [id |-> 3, name |-> "Chandelier",  is_on |-> TRUE] >>

\* "for light in self.lights: if light["id"] == id": the index of the first
\* light of ls whose id is id, 0 when the loop ends without a match
first_light_with_id(ls, id) ==
    IF \E i \in 1..Len(ls) : ls[i].id = id
    THEN CHOOSE i \in 1..Len(ls) :
            /\ ls[i].id = id
            /\ \A j \in 1..(i - 1) : ls[j].id # id
    ELSE 0

\* a slip: the id test is dropped, the first light of the list is switched
change_state_first(ls, id, is_on) ==
    LET ls2 == [ls EXCEPT ![1].is_on = is_on]
    IN  [lights |-> ls2, ret |-> ls2[1]]

\* a slip: the loop does not stop at the matching light, every light is switched
change_state_all(ls, id, is_on) ==
    LET i   == first_light_with_id(ls, id)
        ls2 == [k \in 1..Len(ls) |-> [ls[k] EXCEPT !.is_on = is_on]]
    IN  IF i = 0 THEN [lights |-> ls, ret |-> None]
        ELSE [lights |-> ls2, ret |-> ls2[i]]

\* LightsPlugin.change_state: the lights after the call and the value returned
change_state(ls, id, is_on) ==
    LET i == first_light_with_id(ls, id)
    IN  IF i = 0
        THEN [lights |-> ls, ret |-> None]
        ELSE LET ls2 == [ls EXCEPT ![i].is_on = is_on]
             IN  [lights |-> ls2, ret |-> ls2[i]]

\* LightsPlugin.get_state (kernel function "get_lights"): returns self.lights
get_state(ls) == ls

\* a call of the kernel function get_lights
GetLights ==
    /\ Len(calls) < MaxCalls
    /\ ret' = get_state(lights)
    /\ calls' = Append(calls, [op |-> "get_lights", id |-> 0, is_on |-> FALSE])
    /\ UNCHANGED lights
    /\ UNCHANGED <<chunkVars, filterVars, storeVars, pdfVars, richVars, metricVars>>

\* a call of the kernel function change_state
ChangeState ==
    /\ Len(calls) < MaxCalls
    /\ \E id \in LightIds, is_on \in BOOLEAN :
          LET r == change_state(lights, id, is_on)
          IN  /\ lights' = r.lights
              /\ ret' = r.ret
              /\ calls' = Append(calls, [op |-> "change_state", id |-> id, is_on |-> is_on])
    /\ UNCHANGED <<chunkVars, filterVars, storeVars, pdfVars, richVars, metricVars>>

(***************************************************************************)
(* Notebook 5: chunk_text                                                  *)
(***************************************************************************)

\* the texts are the character sequences of at most MaxTextLen characters
MaxTextLen == 8
\* chunk_size ranges over 1..MaxChunkSize, overlap over 0..chunk_size - 1
MaxChunkSize == 5
\* the loop is followed for at most MaxChunks iterations
MaxChunks == 9

\* the characters of a text: two letters and the sentence end chunk_text looks for
Chars == {"a", "b", "."}

\* all sequences over S of length at most n
SeqsUpTo(S, n) == UNION {[1..k -> S] : k \in 0..n}

Min(a, b) == IF a < b THEN a ELSE b
Max(a, b) == IF a > b THEN a ELSE b

\* Python's s[a:b]: a negative index counts from the end, indices are clamped
\* to 0..len(s), and an empty range gives the empty string
PySlice(s, a, b) ==
    LET n  == Len(s)
        lo == IF a < 0 THEN Max(a + n, 0) ELSE Min(a, n)
        hi == IF b < 0 THEN Max(b + n, 0) ELSE Min(b, n)
    IN  IF lo < hi THEN SubSeq(s, lo + 1, hi) ELSE <<>>

\* Python's s.rfind(c): the greatest 0-based index of c in s, -1 when absent
rfind(s, c) ==
    IF \E i \in 1..Len(s) : s[i] = c
    THEN (CHOOSE i \in 1..Len(s) : s[i] = c /\ \A j \in (i + 1)..Len(s) : s[j] # c) - 1
    ELSE -1

\* a slip: the next chunk starts where the previous one ended, without overlap
chunk_step_no_overlap(t, cs, ov, st) ==
    LET end0   == st + cs
        chunk0 == PySlice(t, st, end0)
        lp     == rfind(chunk0, ".")
        cut    == end0 < Len(t) /\ lp > cs \div 2
        chunk  == IF cut THEN PySlice(chunk0, 0, lp + 1) ELSE chunk0
        end    == IF cut THEN st + Len(chunk) ELSE end0
    IN  [chunk |-> chunk, end |-> end, start |-> end]

\* a slip: the "not too early" test of the sentence end is dropped
chunk_step_early_cut(t, cs, ov, st) ==
    LET end0   == st + cs
        chunk0 == PySlice(t, st, end0)
        lp     == rfind(chunk0, ".")
        cut    == end0 < Len(t) /\ lp >= 0
        chunk  == IF cut THEN PySlice(chunk0, 0, lp + 1) ELSE chunk0
        end    == IF cut THEN st + Len(chunk) ELSE end0
    IN  [chunk |-> chunk, end |-> end, start |-> end - ov]

\* a slip: the chunk is cut before the sentence end, which is then skipped
chunk_step_drop_period(t, cs, ov, st) ==
    LET end0   == st + cs
        chunk0 == PySlice(t, st, end0)
        lp     == rfind(chunk0, ".")
        cut    == end0 < Len(t) /\ lp > cs \div 2
        chunk  == IF cut THEN PySlice(chunk0, 0, lp) ELSE chunk0
        end    == IF cut THEN st + Len(chunk) + 1 ELSE end0
    IN  [chunk |-> chunk, end |-> end, start |-> end - ov]

\* one iteration of the while loop of chunk_text, entered with start = st:
\* the chunk appended, the value of end, and the next value of start
chunk_step(t, cs, ov, st) ==
    LET end0   == st + cs
        chunk0 == PySlice(t, st, end0)
        lp     == rfind(chunk0, ".")
        cut    == end0 < Len(t) /\ lp > cs \div 2
        chunk  == IF cut THEN PySlice(chunk0, 0, lp + 1) ELSE chunk0
        end    == IF cut THEN st + Len(chunk) ELSE end0
    IN  [chunk |-> chunk, end |-> end, start |-> end - ov]

\* the early return "if len(text) <= chunk_size: return [text]"
ChunkTextShort ==
    /\ cpc = "call"
    /\ Len(text) <= chunk_size
    /\ chunks' = <<text>>
    /\ starts' = <<0>>
    /\ cpc' = "done"
    /\ UNCHANGED <<text, chunk_size, overlap, start>>
    /\ UNCHANGED <<lightsVars, filterVars, storeVars, pdfVars, richVars, metricVars>>

\* "chunks = []; start = 0" and the first test of the while condition
ChunkTextEnter ==
    /\ cpc = "call"
    /\ Len(text) > chunk_size
    /\ chunks' = <<>>
    /\ starts' = <<>>
    /\ start' = 0
    /\ cpc' = "loop"
    /\ UNCHANGED <<text, chunk_size, overlap>>
    /\ UNCHANGED <<lightsVars, filterVars, storeVars, pdfVars, richVars, metricVars>>

\* one iteration of "while start < len(text)": the chunk is appended, start
\* moves, and the loop ends at the break ("if end >= len(text)") or when the
\* while condition fails
ChunkTextLoop ==
    /\ cpc = "loop"
    /\ Len(chunks) < MaxChunks
    /\ LET r == chunk_step(text, chunk_size, overlap, start)
       IN  /\ chunks' = Append(chunks, r.chunk)
           /\ starts' = Append(starts, start)
           /\ start' = r.start
           /\ cpc' = IF r.end >= Len(text) \/ ~(r.start < Len(text))
                     THEN "done" ELSE "loop"
    /\ UNCHANGED <<text, chunk_size, overlap>>
    /\ UNCHANGED <<lightsVars, filterVars, storeVars, pdfVars, richVars, metricVars>>

(***************************************************************************)
(* Notebook 3: content_blocking_filter, ChatPlugin, test_scenarios         *)
(***************************************************************************)

\* the chat history passed to kernel.invoke holds at most MaxPriorMessages messages
MaxPriorMessages == 1
\* an input is a variant of the forbidden word between affixes of at most
\* MaxAffixLen characters
MaxAffixLen == 1

\* FORBIDDEN_WORD = "badword"
FORBIDDEN_WORD == <<"b", "a", "d", "w", "o", "r", "d">>

\* the upper-case letter of each lower-case letter of the inputs
UpperOf == [c \in {"b", "a", "d", "w", "o", "r", "x"} |->
              CASE c = "b" -> "B" [] c = "a" -> "A" [] c = "d" -> "D" [] c = "w" -> "W"
                [] c = "o" -> "O" [] c = "r" -> "R" [] c = "x" -> "X"]

\* str.lower() on one character
lower_char(c) ==
    IF \E l \in DOMAIN UpperOf : UpperOf[l] = c
    THEN CHOOSE l \in DOMAIN UpperOf : UpperOf[l] = c
    ELSE c

\* str.lower()
lower(str) == [i \in 1..Len(str) |-> lower_char(str[i])]

\* Python's "w in str" for strings: w is a substring of str
contains(str, w) ==
    \E i \in 0..(Len(str) - Len(w)) : SubSeq(str, i + 1, i + Len(w)) = w

\* the word w with the letters at the positions S in upper case
WithUpper(w, S) == [i \in 1..Len(w) |-> IF i \in S THEN UpperOf[w[i]] ELSE w[i]]

\* the word w without its i-th character
Without(w, i) == SubSeq(w, 1, i - 1) \o SubSeq(w, i + 1, Len(w))

\* the words that are nearly the forbidden word: a letter missing, a letter
\* replaced, a space inside, nothing at all
NearMisses ==
    {Without(FORBIDDEN_WORD, i) : i \in 1..Len(FORBIDDEN_WORD)}
      \cup {[FORBIDDEN_WORD EXCEPT ![i] = "x"] : i \in 1..Len(FORBIDDEN_WORD)}
      \cup {SubSeq(FORBIDDEN_WORD, 1, i) \o <<" ">> \o SubSeq(FORBIDDEN_WORD, i + 1, 7) : i \in 1..6}
      \cup {<<>>}

\* the middle of an input: the forbidden word in every casing, and the near
\* misses in lower and in upper case
InputWords ==
    {WithUpper(FORBIDDEN_WORD, S) : S \in SUBSET (1..Len(FORBIDDEN_WORD))}
      \cup NearMisses
      \cup {[i \in 1..Len(m) |-> IF m[i] = " " THEN " " ELSE UpperOf[m[i]]] : m \in NearMisses}

\* the user inputs of the scenarios: a word between two short affixes
UserInputs ==
    {pre \o w \o post : pre \in SeqsUpTo({"x", " ", "d"}, MaxAffixLen),
                        w \in InputWords,
                        post \in SeqsUpTo({"x", " ", "b"}, MaxAffixLen)}

\* dict.get(key): the value under key, None when the key is absent; a metadata
\* dict is a set of <<key, value>> pairs
dict_get(md, key) ==
    IF \E kv \in md : kv[1] = key
    THEN (CHOOSE kv \in md : kv[1] = key)[2]
    ELSE None

\* Python truthiness of a metadata value
truthy(v) == v \notin {None, "False", ""}

RefusalText == "I cannot process requests containing prohibited words. Please try again."
FallbackText == "I'm sorry, I couldn't generate a response."

\* context.result before anything set it, and the "no value yet" of the
\* history variables: Python's None where a message is expected
NoMessage == [role |-> "None", text |-> "", metadata |-> {}]

\* blocked_message of content_blocking_filter
blocked_message ==
    [role |-> "assistant", text |-> RefusalText, metadata |-> {<<"filtered", "True">>}]

\* the message ChatPlugin.chat builds when the service returns no message
fallback_message ==
    [role |-> "assistant", text |-> FallbackText, metadata |-> {}]

\* what chat_service.get_chat_message_contents can give back: an exception, an
\* empty list, or a list whose first message is an assistant message carrying the
\* service's metadata; the service is free to answer in the words of the refusal
LlmOutcomes ==
    {[kind |-> "raise", messages |-> <<>>], [kind |-> "list", messages |-> <<>>]}
      \cup {[kind |-> "list",
             messages |-> <<[role |-> "assistant", text |-> t,
                             metadata |-> {<<"id", "chatcmpl">>}]>>] :
                t \in {"The capital of France is Paris.", RefusalText}}

\* a message a chat history may hold before the invocation
PriorMessages == {[role |-> "user", text |-> <<"x">>, metadata |-> {}]}

\* a slip: the input is tested as typed, without .lower()
content_blocking_filter_no_lower(input, history) ==
    IF contains(input, FORBIDDEN_WORD)
    THEN [calls_next |-> FALSE,
          result |-> blocked_message,
          chat_history |-> IF Len(history) > 0 THEN Append(history, blocked_message)
                           ELSE history]
    ELSE [calls_next |-> TRUE, result |-> NoMessage, chat_history |-> history]

\* a slip: the final "await next(context)" is missing
content_blocking_filter_no_next(input, history) ==
    IF contains(lower(input), FORBIDDEN_WORD)
    THEN [calls_next |-> FALSE,
          result |-> blocked_message,
          chat_history |-> IF Len(history) > 0 THEN Append(history, blocked_message)
                           ELSE history]
    ELSE [calls_next |-> FALSE, result |-> NoMessage, chat_history |-> history]

\* content_blocking_filter, up to its return or its call of next: whether it
\* calls next, the value it sets context.result to (None: not set), and the
\* chat history it leaves. "if chat_history_from_args" is the truth value of a
\* ChatHistory, which is that of its length
content_blocking_filter(input, history) ==
    IF contains(lower(input), FORBIDDEN_WORD)
    THEN [calls_next |-> FALSE,
          result |-> blocked_message,
          chat_history |-> IF Len(history) > 0 THEN Append(history, blocked_message)
                           ELSE history]
    ELSE [calls_next |-> TRUE, result |-> NoMessage, chat_history |-> history]

\* ChatPlugin.chat: the value returned for the service's answer
chat_return_value(outcome) ==
    IF Len(outcome.messages) > 0 THEN outcome.messages[1] ELSE fallback_message

\* a slip: the two labels are swapped
response_label_swapped(value) ==
    IF value.metadata # {} /\ truthy(dict_get(value.metadata, "filtered"))
    THEN "Assistant Response (from LLM)"
    ELSE "Assistant Response (from Filter)"

\* test_scenarios: the label printed for a response whose value is a message
response_label(value) ==
    IF value.metadata # {} /\ truthy(dict_get(value.metadata, "filtered"))
    THEN "Assistant Response (from Filter)"
    ELSE "Assistant Response (from LLM)"

\* kernel.invoke runs the function-invocation filter: content_blocking_filter
\* either sets context.result and returns, or calls next
RunFilter ==
    /\ fpc = "invoke"
    /\ LET f == content_blocking_filter(user_input, chat_history)
       IN  /\ chat_history' = f.chat_history
           /\ context_result' = f.result
           /\ result_set_by' = IF f.result # NoMessage THEN "filter" ELSE None
           /\ next_calls' = IF f.calls_next THEN next_calls + 1 ELSE next_calls
           /\ fpc' = IF f.calls_next THEN "chat" ELSE "returned"
    /\ UNCHANGED <<user_input, chat_return, llm_requests, printed>>
    /\ UNCHANGED <<lightsVars, chunkVars, storeVars, pdfVars, richVars, metricVars>>

\* next(context): ChatPlugin.chat adds the user message, asks the service, and
\* returns the first message or the fallback; an exception of the service leaves
\* the function and kernel.invoke
RunChat ==
    /\ fpc = "chat"
    /\ \E outcome \in LlmOutcomes :
          LET h == Append(chat_history,
                          [role |-> "user", text |-> user_input, metadata |-> {}])
          IN  /\ chat_history' = h
              /\ llm_requests' = Append(llm_requests, h)
              /\ IF outcome.kind = "raise"
                 THEN /\ fpc' = "raised"
                      /\ UNCHANGED <<context_result, result_set_by, chat_return>>
                 ELSE /\ chat_return' = chat_return_value(outcome)
                      /\ context_result' = chat_return_value(outcome)
                      /\ result_set_by' = "function"
                      /\ fpc' = "returned"
    /\ UNCHANGED <<user_input, next_calls, printed>>
    /\ UNCHANGED <<lightsVars, chunkVars, storeVars, pdfVars, richVars, metricVars>>

\* kernel.invoke returned: test_scenarios prints the response under its label
PrintResponse ==
    /\ fpc = "returned"
    /\ printed' = response_label(context_result)
    /\ fpc' = "printed"
    /\ UNCHANGED <<user_input, chat_history, context_result, result_set_by,
                   next_calls, chat_return, llm_requests>>
    /\ UNCHANGED <<lightsVars, chunkVars, storeVars, pdfVars, richVars, metricVars>>

\* kernel.invoke raised: test_scenarios prints the error
PrintError ==
    /\ fpc = "raised"
    /\ printed' = "An unexpected error occurred"
    /\ fpc' = "printed"
    /\ UNCHANGED <<user_input, chat_history, context_result, result_set_by,
                   next_calls, chat_return, llm_requests>>
    /\ UNCHANGED <<lightsVars, chunkVars, storeVars, pdfVars, richVars, metricVars>>

(***************************************************************************)
(* Notebook 5: create_and_populate_vector_store, search_documents,         *)
(* perform_rag_query, cleanup_collection                                   *)
(***************************************************************************)

\* document_chunks holds at most MaxDocChunks chunks
MaxDocChunks == 2
\* top_k ranges over 1..MaxTopK
MaxTopK == 2

\* the contents of the chunks, and the position of each on the line that
\* stands for the embedding space
Contents == {"c1", "c2"}
ContentEmbedding == [c \in Contents |-> CASE c = "c1" -> 1 [] c = "c2" -> 4]

\* the queries, and the position of each
Queries == {"q1", "q2"}
QueryEmbedding == [q \in Queries |-> CASE q = "q1" -> 1 [] q = "q2" -> 3]

\* the stems of the PDF files
DocumentNames == {"docA", "docB"}

\* the document_filter arguments: None, the empty string, a document, no document
DocumentFilters == {None, "", "docA", "docC"}

\* the lists of chunks the PDF processing can leave in document_chunks: every
\* chunk has a key of its own (uuid4), here its position in the list
DocumentChunkLists ==
    UNION {{[i \in 1..n |-> [id |-> i, content |-> c[i], document_name |-> d[i]]] :
               c \in [1..n -> Contents], d \in [1..n -> DocumentNames]} :
           n \in 0..MaxDocChunks}

\* the values of the global vector_collection: not yet assigned, None, or a
\* collection with its inner storage, the records in upsert order
UndefinedCollection == [kind |-> "undefined", storage |-> <<>>]
NoneCollection == [kind |-> "None", storage |-> <<>>]
InMemoryVectorCollection(storage) == [kind |-> "collection", storage |-> storage]

\* last_op before any operation; embed_ok tells whether the embedding service
\* answered during the operation
NoOp == [op |-> "none", query |-> "", document_filter |-> None, top_k |-> 0,
         embed_ok |-> TRUE, ended |-> "none"]

\* the similarity score of a record for a query: the closer, the higher
score(query, record) ==
    LET d == QueryEmbedding[query] - ContentEmbedding[record.content]
    IN  10 - (IF d < 0 THEN -d ELSE d)

\* record_collection.upsert of one record: by key, replacing or appending
upsert_one(storage, record) ==
    IF \E i \in 1..Len(storage) : storage[i].id = record.id
    THEN [i \in 1..Len(storage) |-> IF storage[i].id = record.id THEN record ELSE storage[i]]
    ELSE Append(storage, record)

\* record_collection.upsert(records)
RECURSIVE upsert(_, _)
upsert(storage, records) ==
    IF records = <<>> THEN storage
    ELSE upsert(upsert_one(storage, Head(records)), Tail(records))

\* the records of the storage that pass the filter (an equal_to on
\* document_name, or None for no filter), in storage order
RECURSIVE filtered_records(_, _)
filtered_records(storage, filter) ==
    IF storage = <<>> THEN <<>>
    ELSE IF filter = None \/ Head(storage).document_name = filter
         THEN <<Head(storage)>> \o filtered_records(Tail(storage), filter)
         ELSE filtered_records(Tail(storage), filter)

\* records sorted by descending score, equal scores in storage order
RECURSIVE by_score(_, _)
by_score(records, query) ==
    IF records = <<>> THEN <<>>
    ELSE LET best == CHOOSE i \in 1..Len(records) :
                        /\ \A j \in 1..Len(records) :
                              score(query, records[j]) <= score(query, records[i])
                        /\ \A j \in 1..(i - 1) :
                              score(query, records[j]) < score(query, records[i])
         IN  <<records[best]>> \o
             by_score(SubSeq(records, 1, best - 1) \o SubSeq(records, best + 1, Len(records)),
                      query)

\* vector_collection.vectorized_search(vector, options): the records that pass
\* options.filter (an equal_to on document_name, or none), ranked by score, the
\* first options.top of them, each with its score
vectorized_search(storage, query, options) ==
    LET ranked == by_score(filtered_records(storage, options.filter), query)
        n      == IF Len(ranked) < options.top THEN Len(ranked) ELSE options.top
    IN  [i \in 1..n |-> <<ranked[i], score(query, ranked[i])>>]

\* a slip: top_k is not handed to the options, the SDK's default of 3 applies
search_options_default_top(document_filter, top_k) ==
    IF document_filter # None /\ document_filter # ""
    THEN [filter |-> document_filter, top |-> 3]
    ELSE [filter |-> None, top |-> 3]

\* a slip: the filter is built but not handed to the options
search_options_no_filter(document_filter, top_k) ==
    [filter |-> None, top |-> top_k]

\* search_documents: the VectorSearchOptions built from the arguments;
\* "if document_filter" is false for None and for the empty string
search_options(document_filter, top_k) ==
    IF document_filter # None /\ document_filter # ""
    THEN [filter |-> document_filter, top |-> top_k]
    ELSE [filter |-> None, top |-> top_k]

\* search_documents: the list returned. An exception in the try block (the
\* embedding service fails, vector_collection is None or unassigned) gives [],
\* as does an empty result
search_documents(collection, query, document_filter, top_k, embed_ok) ==
    IF ~embed_ok \/ collection.kind # "collection"
    THEN <<>>
    ELSE vectorized_search(collection.storage, query, search_options(document_filter, top_k))

\* a slip: the early return for an empty document_chunks is missing
create_and_populate_vector_store_no_guard(doc_chunks, embed_ok) ==
    LET s0 == <<>>
        s1 == <<>>
    IN  IF ~embed_ok
        THEN [returns |-> FALSE, collection |-> UndefinedCollection, keys |-> <<>>,
              sdk_calls |-> <<"new", "delete_collection", "create_collection_if_not_exists",
                              "add_vector_to_records">>]
        ELSE [returns |-> TRUE,
              collection |-> InMemoryVectorCollection(upsert(s1, doc_chunks)),
              keys |-> [i \in 1..Len(doc_chunks) |-> doc_chunks[i].id],
              sdk_calls |-> <<"new", "delete_collection", "create_collection_if_not_exists",
                              "add_vector_to_records", "upsert">>]

\* create_and_populate_vector_store: whether it returns (an exception of the
\* embedding service leaves it), the value returned, the keys upsert gave
\* back, and the collection calls made, in order. The collection is a new
\* object (s0), wiped by delete_collection (s1) before the upsert
create_and_populate_vector_store(doc_chunks, embed_ok) ==
    LET s0 == <<>>
        s1 == <<>>
    IN  IF doc_chunks = <<>>
        THEN [returns |-> TRUE, collection |-> NoneCollection, keys |-> <<>>,
              sdk_calls |-> <<>>]
        ELSE IF ~embed_ok
        THEN [returns |-> FALSE, collection |-> UndefinedCollection, keys |-> <<>>,
              sdk_calls |-> <<"new", "delete_collection", "create_collection_if_not_exists",
                              "add_vector_to_records">>]
        ELSE [returns |-> TRUE,
              collection |-> InMemoryVectorCollection(upsert(s1, doc_chunks)),
              keys |-> [i \in 1..Len(doc_chunks) |-> doc_chunks[i].id],
              sdk_calls |-> <<"new", "delete_collection", "create_collection_if_not_exists",
                              "add_vector_to_records", "upsert">>]

\* the system instruction of perform_rag_query
SystemMessage == "You are a helpful AI assistant. You are provided with context from documents. Your task is to answer the user's question based ONLY on this provided context. Do not use any external knowledge or make assumptions beyond what is stated in the context. If the information to answer the question is not present in the context, clearly state that you cannot answer based on the provided information. Be concise and directly answer the question."

\* the note that stands in for the context when nothing was retrieved
NoContextNote == "(System note: No specific context was retrieved for this question from the documents. Based on your instructions, if the answer is not in the documents, please state that.)"

\* "\n\n---\n\n".join(retrieved_chunks_content), as the list of its pieces
join_contents(contents) ==
    [i \in 1..(IF contents = <<>> THEN 0 ELSE 2 * Len(contents) - 1) |->
        IF i % 2 = 1 THEN contents[(i + 1) \div 2] ELSE "\n\n---\n\n"]

\* a slip: the context is left out of the user message
rag_chat_history_no_context(query, results) ==
    << [role |-> "system", text |-> <<SystemMessage>>],
       [role |-> "user",
        text |-> <<"User Question: ", query,
                   NoContextNote>>] >>

\* perform_rag_query: the chat history built from the search results, each
\* message text as the list of its pieces
rag_chat_history(query, results) ==
    LET retrieved_chunks_content == [i \in 1..Len(results) |-> results[i][1].content]
        user_message_text ==
            IF retrieved_chunks_content # <<>>
            THEN <<"Here is the context from the documents:", "<context>">>
                   \o join_contents(retrieved_chunks_content)
                   \o <<"</context>",
                        "Based ONLY on the context provided above, please answer the following question.",
                        "User Question: ", query>>
            ELSE <<"User Question: ", query,
                   NoContextNote>>
    IN  << [role |-> "system", text |-> <<SystemMessage>>],
           [role |-> "user", text |-> user_message_text] >>

\* the cell "vector_collection = await create_and_populate_vector_store()"
CreateAndPopulate ==
    /\ \E embed_ok \in BOOLEAN :
          LET r == create_and_populate_vector_store(document_chunks, embed_ok)
          IN  /\ vector_collection' = IF r.returns THEN r.collection ELSE vector_collection
              /\ upserted_keys' = r.keys
              /\ sdk_calls' = r.sdk_calls
              /\ last_op' = [NoOp EXCEPT !.op = "create", !.embed_ok = embed_ok,
                                         !.ended = IF r.returns THEN "returned" ELSE "raised"]
    /\ search_ret' = <<>>
    /\ rag_request' = <<>>
    /\ UNCHANGED <<document_chunks, chat_configured>>
    /\ UNCHANGED <<lightsVars, chunkVars, filterVars, pdfVars, richVars, metricVars>>

\* a call of search_documents(query, document_filter, top_k)
SearchDocuments ==
    /\ \E query \in Queries, document_filter \in DocumentFilters, top_k \in 1..MaxTopK,
          embed_ok \in BOOLEAN :
          /\ search_ret' = search_documents(vector_collection, query, document_filter,
                                            top_k, embed_ok)
          /\ last_op' = [op |-> "search", query |-> query, document_filter |-> document_filter,
                         top_k |-> top_k, embed_ok |-> embed_ok, ended |-> "returned"]
    /\ rag_request' = <<>>
    /\ sdk_calls' = <<>>
    /\ upserted_keys' = <<>>
    /\ UNCHANGED <<document_chunks, vector_collection, chat_configured>>
    /\ UNCHANGED <<lightsVars, chunkVars, filterVars, pdfVars, richVars, metricVars>>

\* a call of perform_rag_query(query, document_filter, top_k_retrieval): without
\* the chat service it returns at once; otherwise it searches, builds the chat
\* history and sends it to the service
PerformRagQuery ==
    /\ \E query \in Queries, document_filter \in DocumentFilters, top_k \in 1..MaxTopK,
          embed_ok \in BOOLEAN :
          IF ~chat_configured
          THEN /\ rag_request' = <<>>
               /\ last_op' = [op |-> "rag", query |-> query, document_filter |-> document_filter,
                              top_k |-> top_k, embed_ok |-> embed_ok, ended |-> "no service"]
               /\ search_ret' = <<>>
          ELSE LET results == search_documents(vector_collection, query, document_filter,
                                               top_k, embed_ok)
               IN  /\ search_ret' = results
                   /\ rag_request' = rag_chat_history(query, results)
                   /\ last_op' = [op |-> "rag", query |-> query,
                                  document_filter |-> document_filter,
                                  top_k |-> top_k, embed_ok |-> embed_ok,
                                  ended |-> "returned"]
    /\ sdk_calls' = <<>>
    /\ upserted_keys' = <<>>
    /\ UNCHANGED <<document_chunks, vector_collection, chat_configured>>
    /\ UNCHANGED <<lightsVars, chunkVars, filterVars, pdfVars, richVars, metricVars>>

\* cleanup_collection: delete_collection on the collection, if there is one
CleanupCollection ==
    /\ vector_collection.kind # "undefined"
    /\ vector_collection' = IF vector_collection.kind = "collection"
                            THEN InMemoryVectorCollection(<<>>)
                            ELSE vector_collection
    /\ last_op' = [NoOp EXCEPT !.op = "cleanup", !.ended = "returned"]
    /\ search_ret' = <<>>
    /\ rag_request' = <<>>
    /\ sdk_calls' = <<>>
    /\ upserted_keys' = <<>>
    /\ UNCHANGED <<document_chunks, chat_configured>>
    /\ UNCHANGED <<lightsVars, chunkVars, filterVars, pdfVars, richVars, metricVars>>

(***************************************************************************)
(* Notebook 2: the chat histories of Steps 4 and 5                         *)
(***************************************************************************)

MaxStreamChunks == 2

\* content items; the fields an item does not have are None
TextContent(t) == [kind |-> "text", text |-> t, id |-> None, name |-> None]

ImageContent(uri) == [kind |-> "image", text |-> uri, id |-> None, name |-> None]

FunctionCallContent(name, id, arguments) ==
    [kind |-> "function_call", text |-> arguments, id |-> id, name |-> name]

FunctionResultContent(name, id, result) ==
    [kind |-> "function_result", text |-> result, id |-> id, name |-> name]

ChatMessageContent(role, name, items) == [role |-> role, name |-> name, items |-> items]

\* chat_history.add_user_message(text)
UserMessage(t) == ChatMessageContent("user", None, <<TextContent(t)>>)

\* the replies the chat-completion service may give
LlmReplies == {"reply1", "reply2", "reply3"}

\* get_chat_message_content(...): an assistant message with the reply as text
AssistantReply(t) == ChatMessageContent("assistant", None, <<TextContent(t)>>)

\* the chunks a streaming response may yield
StreamChunks == {"part1", "part2"}

\* the first cell of Step 5: a new ChatHistory with a SYSTEM message and a
\* USER message that holds a text and an image
rich_chat_history ==
    << ChatMessageContent("system", None, <<TextContent("hotel booking assistant")>>),
       ChatMessageContent("user", "Anya_Sharma",
           <<TextContent("find a room like this picture"),
             ImageContent("hotel_room_image_url")>>) >>

\* a slip: the result of the tool is added before the call of the function
add_tool_messages_swapped(history) ==
    history \o
    << ChatMessageContent("tool", None,
           <<FunctionResultContent("get_user_preferences_HotelBookingPlugin",
                                   "user_prefs_anya_001", "preferences")>>),
       ChatMessageContent("assistant", None,
           <<FunctionCallContent("get_user_preferences_HotelBookingPlugin",
                                 "user_prefs_anya_001", "Anya_Sharma")>>) >>

\* the second cell of Step 5: the simulated function call, then its result
add_tool_messages(history) ==
    history \o
    << ChatMessageContent("assistant", None,
           <<FunctionCallContent("get_user_preferences_HotelBookingPlugin",
                                 "user_prefs_anya_001", "Anya_Sharma")>>),
       ChatMessageContent("tool", None,
           <<FunctionResultContent("get_user_preferences_HotelBookingPlugin",
                                   "user_prefs_anya_001", "preferences")>>) >>

\* message.content: the text of the first text item, "" without one
content(message) ==
    LET ts == SelectSeq(message.items, LAMBDA it : it.kind = "text")
    IN  IF ts = <<>> THEN "" ELSE ts[1].text

\* Step 4a, first cell: a new chat history with one user message
CellHistoryNonStreaming ==
    /\ nb_cell = "history_a"
    /\ nb_chat_history' = <<UserMessage("story about red pandas")>>
    /\ nb_cell' = "response_a"
    /\ UNCHANGED <<nb_response, nb_stream, nb_outputs>>
    /\ UNCHANGED <<lightsVars, chunkVars, filterVars, storeVars, pdfVars, metricVars>>

\* Step 4a, second cell: the response is fetched and printed; it is not
\* added to the chat history. An error of the service ends the run.
CellNonStreamingResponse ==
    /\ nb_cell = "response_a"
    /\ \/ \E t \in LlmReplies :
             /\ nb_response' = [nb_response EXCEPT !.response = AssistantReply(t)]
             /\ nb_outputs' = Append(nb_outputs, [cell |-> "response_a", text |-> t])
             /\ nb_cell' = "history_b"
       \/ /\ nb_cell' = "failed"
          /\ UNCHANGED <<nb_response, nb_outputs>>
    /\ UNCHANGED <<nb_chat_history, nb_stream>>
    /\ UNCHANGED <<lightsVars, chunkVars, filterVars, storeVars, pdfVars, metricVars>>

\* Step 4b, first cell: a new chat history with one user message
CellHistoryStreaming ==
    /\ nb_cell = "history_b"
    /\ nb_chat_history' = <<UserMessage("story about red pandas")>>
    /\ nb_cell' = "stream_b"
    /\ UNCHANGED <<nb_response, nb_stream, nb_outputs>>
    /\ UNCHANGED <<lightsVars, chunkVars, filterVars, storeVars, pdfVars, metricVars>>

\* Step 4b, second cell, up to the loop: response becomes the stream
CellStreamingResponse ==
    /\ nb_cell = "stream_b"
    /\ nb_response' = [nb_response EXCEPT !.response = "stream"]
    /\ \/ /\ nb_stream' \in SeqsUpTo(StreamChunks, MaxStreamChunks)
          /\ nb_cell' = "streaming"
       \/ /\ nb_cell' = "failed"
          /\ UNCHANGED nb_stream
    /\ UNCHANGED <<nb_chat_history, nb_outputs>>
    /\ UNCHANGED <<lightsVars, chunkVars, filterVars, storeVars, pdfVars, metricVars>>

\* "async for chunk in response: print(chunk, end="")": one chunk is printed,
\* or the stream has ended and the cell with it
CellStreamLoop ==
    /\ nb_cell = "streaming"
    /\ IF nb_stream = <<>>
       THEN /\ nb_cell' = "rich_history"
            /\ UNCHANGED <<nb_stream, nb_outputs>>
       ELSE /\ nb_stream' = Tail(nb_stream)
            /\ nb_outputs' = Append(nb_outputs, [cell |-> "stream_b", text |-> Head(nb_stream)])
            /\ UNCHANGED nb_cell
    /\ UNCHANGED <<nb_chat_history, nb_response>>
    /\ UNCHANGED <<lightsVars, chunkVars, filterVars, storeVars, pdfVars, metricVars>>

\* Step 5, first cell: chat_history = ChatHistory() and two add_message calls
CellRichHistory ==
    /\ nb_cell = "rich_history"
    /\ nb_chat_history' = rich_chat_history
    /\ nb_cell' = "tool_messages"
    /\ UNCHANGED <<nb_response, nb_stream, nb_outputs>>
    /\ UNCHANGED <<lightsVars, chunkVars, filterVars, storeVars, pdfVars, metricVars>>

\* Step 5, second cell: the function call and the tool result are added
CellToolMessages ==
    /\ nb_cell = "tool_messages"
    /\ nb_chat_history' = add_tool_messages(nb_chat_history)
    /\ nb_cell' = "assistant"
    /\ UNCHANGED <<nb_response, nb_stream, nb_outputs>>
    /\ UNCHANGED <<lightsVars, chunkVars, filterVars, storeVars, pdfVars, metricVars>>

\* Step 5, third cell: the assistant's response is fetched, added to the
\* chat history and printed. An error of the service ends the run.
CellAssistantResponse ==
    /\ nb_cell = "assistant"
    /\ \/ \E t \in LlmReplies :
             /\ nb_response' = [nb_response EXCEPT !.assistant_response = AssistantReply(t)]
             /\ nb_chat_history' = Append(nb_chat_history, AssistantReply(t))
             /\ nb_outputs' = Append(nb_outputs,
                                     [cell |-> "assistant", text |-> content(AssistantReply(t))])
             /\ nb_cell' = "display"
       \/ /\ nb_cell' = "failed"
          /\ UNCHANGED <<nb_response, nb_chat_history, nb_outputs>>
    /\ UNCHANGED nb_stream
    /\ UNCHANGED <<lightsVars, chunkVars, filterVars, storeVars, pdfVars, metricVars>>

\* Step 5, last cell: "for message in chat_history: print(...)"
CellDisplayHistory ==
    /\ nb_cell = "display"
    /\ nb_outputs' = nb_outputs \o
          [i \in 1..Len(nb_chat_history) |->
              [cell |-> "display", text |-> nb_chat_history[i].role]]
    /\ nb_cell' = "end"
    /\ UNCHANGED <<nb_chat_history, nb_response, nb_stream>>
    /\ UNCHANGED <<lightsVars, chunkVars, filterVars, storeVars, pdfVars, metricVars>>

(***************************************************************************)
(* Shell-style patterns (Path.glob, View(instrument_name=...))             *)
(***************************************************************************)

\* fnmatch.fnmatchcase(name, pat) for patterns made of literal characters,
\* "?" and "*"
RECURSIVE fnmatch(_, _)
fnmatch(name, pat) ==
    IF pat = <<>> THEN name = <<>>
    ELSE IF Head(pat) = "*"
         THEN fnmatch(name, Tail(pat)) \/ (name # <<>> /\ fnmatch(Tail(name), pat))
         ELSE /\ name # <<>>
              /\ Head(pat) = "?" \/ Head(pat) = Head(name)
              /\ fnmatch(Tail(name), Tail(pat))

(***************************************************************************)
(* Notebook 5: extract_text_from_pdf, process_pdfs_from_folder             *)
(***************************************************************************)

MaxFiles == 2
MaxPages == 2
MaxFolderPages == 3

\* the defaults of chunk_text, chunk_size=1000 and overlap=100, scaled down
DefaultChunkSize == 4
DefaultOverlap == 1

Whitespace == {" "}

RECURSIVE lstrip(_)
lstrip(s) == IF s # <<>> /\ Head(s) \in Whitespace THEN lstrip(Tail(s)) ELSE s

RECURSIVE rstrip(_)
rstrip(s) ==
    IF s # <<>> /\ s[Len(s)] \in Whitespace
    THEN rstrip(SubSeq(s, 1, Len(s) - 1))
    ELSE s

\* str.strip()
strip(s) == rstrip(lstrip(s))

\* the while loop of chunk_text from start = st on, acc the chunks so far
RECURSIVE chunk_loop(_, _, _, _, _)
chunk_loop(t, cs, ov, st, acc) ==
    IF ~(st < Len(t)) THEN acc
    ELSE LET r == chunk_step(t, cs, ov, st)
         IN  IF r.end >= Len(t)
             THEN Append(acc, r.chunk)
             ELSE chunk_loop(t, cs, ov, r.start, Append(acc, r.chunk))

\* chunk_text(text, chunk_size, overlap), the value returned
chunk_text(t, cs, ov) ==
    IF Len(t) <= cs THEN <<t>> ELSE chunk_loop(t, cs, ov, 0, <<>>)

PdfSuffix == <<".", "p", "d", "f">>

\* file names: a.pdf, .pdf, .pdf.pdf and a.txt
FileNames ==
    { <<"a">> \o PdfSuffix,
      PdfSuffix,
      PdfSuffix \o PdfSuffix,
      <<"a", ".", "t", "x", "t">> }

\* what page.extract_text() gives: a blank page, a short page and a page
\* longer than two chunks, with white space around the text
PageTexts ==
    { <<" ">>,
      <<" ", "a", "b">>,
      <<"a", "a", "a", ".", "a", "a", "a", "a", "a", " ">> }

\* the directory listings: file names in the order the directory yields them,
\* no name twice
Listings ==
    { ns \in SeqsUpTo(FileNames, MaxFiles) :
          \A i, j \in 1..Len(ns) : ns[i] = ns[j] => i = j }

\* what the file called name may hold: whether PyPDF2 can read it and the
\* text of its pages, at most max_pages of them; a file that is no PDF, or
\* that cannot be read, has no pages
FileContents(name, max_pages) ==
    IF fnmatch(name, <<"*">> \o PdfSuffix)
    THEN {[readable |-> FALSE, pages |-> <<>>]} \cup
         {[readable |-> TRUE, pages |-> ps] : ps \in SeqsUpTo(PageTexts, max_pages)}
    ELSE {[readable |-> TRUE, pages |-> <<>>]}

\* the contents of the files of the listing ns, max_pages pages in all
RECURSIVE ListingContents(_, _)
ListingContents(ns, max_pages) ==
    IF ns = <<>> THEN {<<>>}
    ELSE UNION { { <<c>> \o rest :
                     rest \in ListingContents(Tail(ns), max_pages - Len(c.pages)) } :
                 c \in FileContents(Head(ns), Min(MaxPages, max_pages)) }

NoFolder == [exists |-> FALSE, files |-> <<>>]

\* the data folder with the listing ns and the contents c
Folder(ns, c) ==
    [exists |-> TRUE,
     files |-> [i \in 1..Len(ns) |->
                  [name |-> ns[i], readable |-> c[i].readable, pages |-> c[i].pages]]]

\* PurePath.stem: the name without its last suffix; a name whose only dot
\* leads or ends it has no suffix
stem(name) ==
    LET i == rfind(name, ".")
    IN  IF 0 < i /\ i < Len(name) - 1 THEN PySlice(name, 0, i) ELSE name

\* list(data_path.glob(pattern)): the files of the folder whose name matches
glob(data_path, pattern) ==
    SelectSeq(data_path.files, LAMBDA f : fnmatch(f.name, pattern))

\* the for loop of extract_text_from_pdf from page page_num on
RECURSIVE extract_pages(_, _, _)
extract_pages(file, page_num, pages_text) ==
    IF page_num > Len(file.pages)
    THEN pages_text
    ELSE LET t == file.pages[page_num]
         IN  extract_pages(file, page_num + 1,
                 IF strip(t) # <<>>
                 THEN Append(pages_text, <<strip(t), page_num>>)
                 ELSE pages_text)

\* extract_text_from_pdf(pdf_path): (text, page number) of each page with
\* text; [] when opening the file raises an exception (an exception raised
\* on a later page leaves the pages read so far, as a shorter file does)
extract_text_from_pdf(file) ==
    IF file.readable THEN extract_pages(file, 1, <<>>) ELSE <<>>

\* a slip: enumerate counting from 1
chunks_of_page_from_one(document_name, page) ==
    LET cs == chunk_text(page[1], DefaultChunkSize, DefaultOverlap)
    IN  [i \in 1..Len(cs) |->
            [content |-> cs[i], document_name |-> document_name,
             page_number |-> page[2], chunk_index |-> i]]

\* "for chunk_idx, chunk in enumerate(chunks)": the DocumentChunks of a page
\* (the id, a fresh uuid4, is left out)
chunks_of_page(document_name, page) ==
    LET cs == chunk_text(page[1], DefaultChunkSize, DefaultOverlap)
    IN  [i \in 1..Len(cs) |->
            [content |-> cs[i], document_name |-> document_name,
             page_number |-> page[2], chunk_index |-> i - 1]]

\* "for page_text, page_num in pages_text": the DocumentChunks of a file
RECURSIVE chunks_of_pages(_, _)
chunks_of_pages(document_name, pages_text) ==
    IF pages_text = <<>> THEN <<>>
    ELSE chunks_of_page(document_name, Head(pages_text))
            \o chunks_of_pages(document_name, Tail(pages_text))

\* process_pdfs_from_folder up to its for loop: the folder is looked up and
\* listed; it returns [] when the folder or the PDF files are missing
ProcessEnter ==
    /\ ppc = "call"
    /\ IF ~folder.exists
       THEN /\ pdf_files' = <<>>
            /\ ppc' = "done"
       ELSE /\ pdf_files' = glob(folder, <<"*">> \o PdfSuffix)
            /\ ppc' = IF pdf_files' = <<>> THEN "done" ELSE "files"
    /\ pdf_chunks' = <<>>
    /\ pdf_idx' = 0
    /\ UNCHANGED <<folder, page_log>>
    /\ UNCHANGED <<lightsVars, chunkVars, filterVars, storeVars, richVars, metricVars>>

\* one iteration of "for pdf_file in pdf_files"; after the last one the
\* function returns document_chunks
ProcessFile ==
    /\ ppc = "files"
    /\ LET pdf_file   == pdf_files[pdf_idx + 1]
           pages_text == extract_text_from_pdf(pdf_file)
       IN  /\ pdf_chunks' = pdf_chunks \o chunks_of_pages(stem(pdf_file.name), pages_text)
           /\ page_log' = page_log \o
                 [k \in 1..Len(pages_text) |->
                     [file |-> pdf_file.name,
                      page_number |-> pages_text[k][2],
                      n |-> Len(chunk_text(pages_text[k][1],
                                           DefaultChunkSize, DefaultOverlap))]]
    /\ pdf_idx' = pdf_idx + 1
    /\ ppc' = IF pdf_idx + 1 = Len(pdf_files) THEN "done" ELSE "files"
    /\ UNCHANGED <<folder, pdf_files>>
    /\ UNCHANGED <<lightsVars, chunkVars, filterVars, storeVars, richVars, metricVars>>

(***************************************************************************)
(* Notebook 4: set_up_metrics and the metric views                         *)
(***************************************************************************)

MaxInstruments == 3

\* the characters of "semantic_kernel"
SemanticKernel ==
    <<"s", "e", "m", "a", "n", "t", "i", "c", "_", "k", "e", "r", "n", "e", "l">>

\* instrument names: semantic_kernel.f, semantic_kernel, semantic_kernel_x,
\* semantic_kerne, xsemantic_kernel, http
InstrumentNames ==
    { SemanticKernel \o <<".", "f">>,
      SemanticKernel,
      SemanticKernel \o <<"_", "x">>,
      SubSeq(SemanticKernel, 1, Len(SemanticKernel) - 1),
      <<"x">> \o SemanticKernel,
      <<"h", "t", "t", "p">> }

\* the global meter provider before set_meter_provider: its instruments
\* record nothing and nothing is exported
NoOpMeterProvider == [kind |-> "noop", views |-> <<>>]

NothingExported == [collected |-> {}, names |-> {}]

\* View(instrument_name="*", aggregation=DropAggregation())
DropAllView == [instrument_name |-> <<"*">>, aggregation |-> "drop"]

\* View(instrument_name="semantic_kernel*")
SemanticKernelView ==
    [instrument_name |-> SemanticKernel \o <<"*">>, aggregation |-> "default"]

\* the view an instrument that no configured view matches is given
DefaultView == [instrument_name |-> <<"*">>, aggregation |-> "default"]

\* MeterProvider(metric_readers=[...], resource=resource, views=[...])
ConfiguredMeterProvider ==
    [kind |-> "sdk", views |-> <<DropAllView, SemanticKernelView>>]

\* a slip: only the first view that matches an instrument applies to it
view_matches_first_only(name, views) ==
    LET m == {i \in 1..Len(views) : fnmatch(name, views[i].instrument_name)}
    IN  IF m = {} THEN {DefaultView}
        ELSE {views[CHOOSE i \in m : \A j \in m : i <= j]}

\* the streams of an instrument: one per view whose instrument_name matches
\* its name, the default view when none matches
view_matches(name, views) ==
    LET m == {i \in 1..Len(views) : fnmatch(name, views[i].instrument_name)}
    IN  IF m = {} THEN {DefaultView} ELSE {views[i] : i \in m}

\* what a collection hands to the exporter: a stream aggregated by
\* DropAggregation yields no data, any other stream yields the metric
collect(names, views) ==
    {n \in names : \E v \in view_matches(n, views) : v.aggregation # "drop"}

\* set_up_metrics(): set_meter_provider takes effect once; a later call
\* leaves the provider already set in place
SetUpMetrics ==
    /\ meter_provider' = IF meter_provider.kind = "noop"
                         THEN ConfiguredMeterProvider
                         ELSE meter_provider
    /\ UNCHANGED <<instruments, measured, exported>>
    /\ UNCHANGED <<lightsVars, chunkVars, filterVars, storeVars, pdfVars, richVars>>

\* meter.create_histogram(name) and the like, by the kernel or a library
CreateInstrument ==
    /\ \E name \in InstrumentNames :
          /\ name \in instruments \/ Cardinality(instruments) < MaxInstruments
          /\ instruments' = instruments \cup {name}
    /\ UNCHANGED <<meter_provider, measured, exported>>
    /\ UNCHANGED <<lightsVars, chunkVars, filterVars, storeVars, pdfVars, richVars>>

\* an instrument records a measurement; without a provider it is discarded
RecordMeasurement ==
    /\ \E name \in instruments :
          measured' = IF meter_provider.kind = "sdk"
                      THEN measured \cup {name}
                      ELSE measured
    /\ UNCHANGED <<meter_provider, instruments, exported>>
    /\ UNCHANGED <<lightsVars, chunkVars, filterVars, storeVars, pdfVars, richVars>>

\* PeriodicExportingMetricReader(exporter, export_interval_millis=5000): a
\* collection is exported; depending on the exporter's temporality the
\* instruments report again next time or only after a new measurement
ExportMetrics ==
    /\ meter_provider.kind = "sdk"
    /\ exported' = [collected |-> measured,
                    names |-> collect(measured, meter_provider.views)]
    /\ measured' \in {measured, {}}
    /\ UNCHANGED <<meter_provider, instruments>>
    /\ UNCHANGED <<lightsVars, chunkVars, filterVars, storeVars, pdfVars, richVars>>

(***************************************************************************)
(* Specifications                                                          *)
(***************************************************************************)

\* LightsPlugin is constructed; the other notebooks rest
Init ==
    /\ lights = InitialLights
    /\ ret = None
    /\ calls = <<>>
    /\ text = <<>>
    /\ chunk_size = 1
    /\ overlap = 0
    /\ start = 0
    /\ chunks = <<>>
    /\ starts = <<>>
    /\ cpc = "done"
    /\ user_input = <<>>
    /\ chat_history = <<>>
    /\ context_result = NoMessage
    /\ result_set_by = None
    /\ next_calls = 0
    /\ chat_return = NoMessage
    /\ llm_requests = <<>>
    /\ printed = None
    /\ fpc = "printed"
    /\ document_chunks = <<>>
    /\ vector_collection = UndefinedCollection
    /\ chat_configured = TRUE
    /\ sdk_calls = <<>>
    /\ upserted_keys = <<>>
    /\ last_op = NoOp
    /\ search_ret = <<>>
    /\ rag_request = <<>>
    /\ folder = NoFolder
    /\ pdf_files = <<>>
    /\ pdf_idx = 0
    /\ pdf_chunks = <<>>
    /\ page_log = <<>>
    /\ ppc = "done"
    /\ nb_cell = "closed"
    /\ nb_chat_history = <<>>
    /\ nb_response = None
    /\ nb_stream = <<>>
    /\ nb_outputs = <<>>
    /\ meter_provider = NoOpMeterProvider
    /\ instruments = {}
    /\ measured = {}
    /\ exported = NothingExported

Next == GetLights \/ ChangeState

\* Notebook 1: the calls of LightsPlugin
Spec == Init /\ [][Next]_vars

\* chunk_text(text, chunk_size, overlap) is called; the other notebooks rest
InitChunk ==
    /\ text \in SeqsUpTo(Chars, MaxTextLen)
    /\ chunk_size \in 1..MaxChunkSize
    /\ overlap \in 0..(chunk_size - 1)
    /\ start = 0
    /\ chunks = <<>>
    /\ starts = <<>>
    /\ cpc = "call"
    /\ lights = InitialLights
    /\ ret = None
    /\ calls = <<>>
    /\ user_input = <<>>
    /\ chat_history = <<>>
    /\ context_result = NoMessage
    /\ result_set_by = None
    /\ next_calls = 0
    /\ chat_return = NoMessage
    /\ llm_requests = <<>>
    /\ printed = None
    /\ fpc = "printed"
    /\ document_chunks = <<>>
    /\ vector_collection = UndefinedCollection
    /\ chat_configured = TRUE
    /\ sdk_calls = <<>>
    /\ upserted_keys = <<>>
    /\ last_op = NoOp
    /\ search_ret = <<>>
    /\ rag_request = <<>>
    /\ folder = NoFolder
    /\ pdf_files = <<>>
    /\ pdf_idx = 0
    /\ pdf_chunks = <<>>
    /\ page_log = <<>>
    /\ ppc = "done"
    /\ nb_cell = "closed"
    /\ nb_chat_history = <<>>
    /\ nb_response = None
    /\ nb_stream = <<>>
    /\ nb_outputs = <<>>
    /\ meter_provider = NoOpMeterProvider
    /\ instruments = {}
    /\ measured = {}
    /\ exported = NothingExported

NextChunk == ChunkTextShort \/ ChunkTextEnter \/ ChunkTextLoop

\* Notebook 5: a call of chunk_text
SpecChunk == InitChunk /\ [][NextChunk]_vars

\* test_scenarios is about to call kernel.invoke; the other notebooks rest
InitFilter ==
    /\ user_input \in UserInputs
    /\ chat_history \in SeqsUpTo(PriorMessages, MaxPriorMessages)
    /\ context_result = NoMessage
    /\ result_set_by = None
    /\ next_calls = 0
    /\ chat_return = NoMessage
    /\ llm_requests = <<>>
    /\ printed = None
    /\ fpc = "invoke"
    /\ lights = InitialLights
    /\ ret = None
    /\ calls = <<>>
    /\ text = <<>>
    /\ chunk_size = 1
    /\ overlap = 0
    /\ start = 0
    /\ chunks = <<>>
    /\ starts = <<>>
    /\ cpc = "done"
    /\ document_chunks = <<>>
    /\ vector_collection = UndefinedCollection
    /\ chat_configured = TRUE
    /\ sdk_calls = <<>>
    /\ upserted_keys = <<>>
    /\ last_op = NoOp
    /\ search_ret = <<>>
    /\ rag_request = <<>>
    /\ folder = NoFolder
    /\ pdf_files = <<>>
    /\ pdf_idx = 0
    /\ pdf_chunks = <<>>
    /\ page_log = <<>>
    /\ ppc = "done"
    /\ nb_cell = "closed"
    /\ nb_chat_history = <<>>
    /\ nb_response = None
    /\ nb_stream = <<>>
    /\ nb_outputs = <<>>
    /\ meter_provider = NoOpMeterProvider
    /\ instruments = {}
    /\ measured = {}
    /\ exported = NothingExported

NextFilter == RunFilter \/ RunChat \/ PrintResponse \/ PrintError

\* Notebook 3: one scenario of test_scenarios
SpecFilter == InitFilter /\ [][NextFilter]_vars

\* the PDF documents were processed into document_chunks and the services
\* configured; the other notebooks rest
InitStore ==
    /\ document_chunks \in DocumentChunkLists
    /\ vector_collection = UndefinedCollection
    /\ chat_configured \in BOOLEAN
    /\ sdk_calls = <<>>
    /\ upserted_keys = <<>>
    /\ last_op = NoOp
    /\ search_ret = <<>>
    /\ rag_request = <<>>
    /\ lights = InitialLights
    /\ ret = None
    /\ calls = <<>>
    /\ text = <<>>
    /\ chunk_size = 1
    /\ overlap = 0
    /\ start = 0
    /\ chunks = <<>>
    /\ starts = <<>>
    /\ cpc = "done"
    /\ user_input = <<>>
    /\ chat_history = <<>>
    /\ context_result = NoMessage
    /\ result_set_by = None
    /\ next_calls = 0
    /\ chat_return = NoMessage
    /\ llm_requests = <<>>
    /\ printed = None
    /\ fpc = "printed"
    /\ folder = NoFolder
    /\ pdf_files = <<>>
    /\ pdf_idx = 0
    /\ pdf_chunks = <<>>
    /\ page_log = <<>>
    /\ ppc = "done"
    /\ nb_cell = "closed"
    /\ nb_chat_history = <<>>
    /\ nb_response = None
    /\ nb_stream = <<>>
    /\ nb_outputs = <<>>
    /\ meter_provider = NoOpMeterProvider
    /\ instruments = {}
    /\ measured = {}
    /\ exported = NothingExported

NextStore == CreateAndPopulate \/ SearchDocuments \/ PerformRagQuery \/ CleanupCollection

\* Notebook 5: the vector store cells, in any order
SpecStore == InitStore /\ [][NextStore]_vars

\* Notebook 4 starts without a meter provider and without instruments
InitMetrics ==
    /\ meter_provider = NoOpMeterProvider
    /\ instruments = {}
    /\ measured = {}
    /\ exported = NothingExported
    /\ lights = InitialLights
    /\ ret = None
    /\ calls = <<>>
    /\ text = <<>>
    /\ chunk_size = 1
    /\ overlap = 0
    /\ start = 0
    /\ chunks = <<>>
    /\ starts = <<>>
    /\ cpc = "done"
    /\ user_input = <<>>
    /\ chat_history = <<>>
    /\ context_result = NoMessage
    /\ result_set_by = None
    /\ next_calls = 0
    /\ chat_return = NoMessage
    /\ llm_requests = <<>>
    /\ printed = None
    /\ fpc = "printed"
    /\ document_chunks = <<>>
    /\ vector_collection = UndefinedCollection
    /\ chat_configured = TRUE
    /\ sdk_calls = <<>>
    /\ upserted_keys = <<>>
    /\ last_op = NoOp
    /\ search_ret = <<>>
    /\ rag_request = <<>>
    /\ folder = NoFolder
    /\ pdf_files = <<>>
    /\ pdf_idx = 0
    /\ pdf_chunks = <<>>
    /\ page_log = <<>>
    /\ ppc = "done"
    /\ nb_cell = "closed"
    /\ nb_chat_history = <<>>
    /\ nb_response = None
    /\ nb_stream = <<>>
    /\ nb_outputs = <<>>

NextMetrics == SetUpMetrics \/ CreateInstrument \/ RecordMeasurement \/ ExportMetrics

\* Notebook 4: the metrics pipeline
SpecMetrics == InitMetrics /\ [][NextMetrics]_vars

\* process_pdfs_from_folder is called on a data folder; the rest is at rest
InitPdf ==
    /\ \/ folder = NoFolder
       \/ \E ns \in Listings : \E c \in ListingContents(ns, MaxFolderPages) : folder = Folder(ns, c)
    /\ pdf_files = <<>>
    /\ pdf_idx = 0
    /\ pdf_chunks = <<>>
    /\ page_log = <<>>
    /\ ppc = "call"
    /\ lights = InitialLights
    /\ ret = None
    /\ calls = <<>>
    /\ text = <<>>
    /\ chunk_size = 1
    /\ overlap = 0
    /\ start = 0
    /\ chunks = <<>>
    /\ starts = <<>>
    /\ cpc = "done"
    /\ user_input = <<>>
    /\ chat_history = <<>>
    /\ context_result = NoMessage
    /\ result_set_by = None
    /\ next_calls = 0
    /\ chat_return = NoMessage
    /\ llm_requests = <<>>
    /\ printed = None
    /\ fpc = "printed"
    /\ document_chunks = <<>>
    /\ vector_collection = UndefinedCollection
    /\ chat_configured = TRUE
    /\ sdk_calls = <<>>
    /\ upserted_keys = <<>>
    /\ last_op = NoOp
    /\ search_ret = <<>>
    /\ rag_request = <<>>
    /\ nb_cell = "closed"
    /\ nb_chat_history = <<>>
    /\ nb_response = None
    /\ nb_stream = <<>>
    /\ nb_outputs = <<>>
    /\ meter_provider = NoOpMeterProvider
    /\ instruments = {}
    /\ measured = {}
    /\ exported = NothingExported

NextPdf == ProcessEnter \/ ProcessFile

\* Notebook 5: process_pdfs_from_folder
SpecPdf == InitPdf /\ [][NextPdf]_vars

\* Notebook 2 is run from the first cell of Step 4 on
InitRich ==
    /\ nb_cell = "history_a"
    /\ nb_chat_history = <<>>
    /\ nb_response = [response |-> None, assistant_response |-> None]
    /\ nb_stream = <<>>
    /\ nb_outputs = <<>>
    /\ lights = InitialLights
    /\ ret = None
    /\ calls = <<>>
    /\ text = <<>>
    /\ chunk_size = 1
    /\ overlap = 0
    /\ start = 0
    /\ chunks = <<>>
    /\ starts = <<>>
    /\ cpc = "done"
    /\ user_input = <<>>
    /\ chat_history = <<>>
    /\ context_result = NoMessage
    /\ result_set_by = None
    /\ next_calls = 0
    /\ chat_return = NoMessage
    /\ llm_requests = <<>>
    /\ printed = None
    /\ fpc = "printed"
    /\ document_chunks = <<>>
    /\ vector_collection = UndefinedCollection
    /\ chat_configured = TRUE
    /\ sdk_calls = <<>>
    /\ upserted_keys = <<>>
    /\ last_op = NoOp
    /\ search_ret = <<>>
    /\ rag_request = <<>>
    /\ folder = NoFolder
    /\ pdf_files = <<>>
    /\ pdf_idx = 0
    /\ pdf_chunks = <<>>
    /\ page_log = <<>>
    /\ ppc = "done"
    /\ meter_provider = NoOpMeterProvider
    /\ instruments = {}
    /\ measured = {}
    /\ exported = NothingExported

NextRich ==
    \/ CellHistoryNonStreaming
    \/ CellNonStreamingResponse
    \/ CellHistoryStreaming
    \/ CellStreamingResponse
    \/ CellStreamLoop
    \/ CellRichHistory
    \/ CellToolMessages
    \/ CellAssistantResponse
    \/ CellDisplayHistory

\* Notebook 2: Steps 4 and 5
SpecRich == InitRich /\ [][NextRich]_vars

(***************************************************************************)
(* Claims about LightsPlugin                                               *)
(***************************************************************************)

\* the lights as the documentation names them: (name, initial is_on) by id
DocumentedLights ==
    << [name |-> "Table Lamp",  is_on |-> FALSE],
       [name |-> "Porch light", is_on |-> FALSE],
       [name |-> "Chandelier",  is_on |-> TRUE] >>

\* the is_on of the most recent change_state call of cs that targeted id,
\* or initial when cs holds no such call
RECURSIVE last_change(_, _, _)
last_change(cs, id, initial) ==
    IF cs = <<>> THEN initial
    ELSE LET c == cs[Len(cs)]
         IN  IF c.op = "change_state" /\ c.id = id
             THEN c.is_on
             ELSE last_change(SubSeq(cs, 1, Len(cs) - 1), id, initial)

\* C4: the plugin starts with Table Lamp (1) off, Porch light (2) off and
\* Chandelier (3) on, and after any sequence of get_lights and change_state
\* calls every light's is_on, and so what get_lights reports, is the is_on of
\* the most recent change_state call that targeted its id, or its initial value.
C4_LightsFollowLastChange ==
    /\ Len(lights) = 3
    /\ \A i \in 1..3 :
          /\ lights[i].id = i
          /\ lights[i].name = DocumentedLights[i].name
          /\ lights[i].is_on = last_change(calls, i, DocumentedLights[i].is_on)
    /\ (calls # <<>> /\ calls[Len(calls)].op = "get_lights") =>
          /\ Len(ret) = 3
          /\ \A i \in 1..3 :
                /\ ret[i].id = i
                /\ ret[i].is_on = last_change(calls, i, DocumentedLights[i].is_on)

\* C4 witness: light 1 was switched on, then off, and get_lights reports it off
C4_Witness ==
    /\ Len(calls) = 3
    /\ calls[1] = [op |-> "change_state", id |-> 1, is_on |-> TRUE]
    /\ calls[2] = [op |-> "change_state", id |-> 1, is_on |-> FALSE]
    /\ calls[3].op = "get_lights"
    /\ ret[1].is_on = FALSE
    /\ ret[3].is_on = TRUE

\* C5: change_state(id, is_on) changes only the is_on of the light whose id is
\* id and returns that light (None, changing nothing, when no light has that
\* id); every other is_on, every id and name, the number and the order of the
\* lights stay as they were, and get_lights changes nothing.
C5_ChangeStateFrame ==
    [][ Len(calls') = Len(calls) + 1 =>
          LET c == calls'[Len(calls')]
          IN  /\ Len(lights') = Len(lights)
              /\ \A i \in 1..Len(lights) :
                    /\ lights'[i].id = lights[i].id
                    /\ lights'[i].name = lights[i].name
              /\ c.op = "get_lights" => lights' = lights
              /\ c.op = "change_state" =>
                    /\ \A i \in 1..Len(lights) :
                          /\ lights[i].id # c.id => lights'[i].is_on = lights[i].is_on
                          /\ lights[i].id = c.id =>
                                /\ lights'[i].is_on = c.is_on
                                /\ ret' = lights'[i]
                    /\ (\A i \in 1..Len(lights) : lights[i].id # c.id) =>
                          /\ ret' = None
                          /\ lights' = lights
      ]_vars

\* C5 witness: change_state(2, TRUE) returned the Porch light switched on and
\* left the Table Lamp off and the Chandelier on
C5_Witness ==
    /\ calls # <<>>
    /\ calls[Len(calls)] = [op |-> "change_state", id |-> 2, is_on |-> TRUE]
    /\ ret = [id |-> 2, name |-> "Porch light", is_on |-> TRUE]
    /\ lights[1].is_on = FALSE
    /\ lights[3].is_on = TRUE

(***************************************************************************)
(* Claims about chunk_text                                                 *)
(***************************************************************************)

\* C10: whenever 0 <= overlap <= chunk_size // 2 (as for the defaults, 100 and
\* 1000), every chunk after the first begins exactly overlap characters before
\* the end of the previous chunk: its first overlap characters are the last
\* overlap characters of the previous chunk.
C10_ChunksOverlap ==
    (overlap <= chunk_size \div 2) =>
        \A i \in 1..(Len(chunks) - 1) :
            /\ chunks[i] = SubSeq(text, starts[i] + 1, starts[i] + Len(chunks[i]))
            /\ chunks[i + 1] = SubSeq(text, starts[i + 1] + 1, starts[i + 1] + Len(chunks[i + 1]))
            /\ starts[i + 1] = starts[i] + Len(chunks[i]) - overlap
            /\ Len(chunks[i]) >= overlap
            /\ Len(chunks[i + 1]) >= overlap
            /\ SubSeq(chunks[i + 1], 1, overlap)
                 = SubSeq(chunks[i], Len(chunks[i]) - overlap + 1, Len(chunks[i]))

\* C10 witness: a call that returned three chunks with an overlap of two
\* characters, the first chunk cut short at a sentence end
C10_Witness ==
    /\ cpc = "done"
    /\ overlap = 2
    /\ chunk_size = 5
    /\ Len(chunks) = 3
    /\ Len(chunks[1]) = 4
    /\ chunks[1][4] = "."
    /\ chunks[2][1] # chunks[2][2]

(***************************************************************************)
(* Claims about the content filter                                         *)
(***************************************************************************)

\* the forbidden word as the documentation spells it
Badword == <<"b", "a", "d", "w", "o", "r", "d">>

\* str contains "badword" as a substring, each letter in either case
ContainsBadwordAnyCase(str) ==
    \E i \in 0..(Len(str) - Len(Badword)) :
        \A k \in 1..Len(Badword) :
            str[i + k] \in {Badword[k], UpperOf[Badword[k]]}

\* C1: when the input contains "badword" in any letter case, the filter never
\* calls next: the chat function does not run, no chat-completion request is
\* made, and the invocation result is the fixed assistant refusal carrying
\* metadata filtered=True.
C1_BlockedNeverRuns ==
    ContainsBadwordAnyCase(user_input) =>
        /\ next_calls = 0
        /\ chat_return = NoMessage
        /\ llm_requests = <<>>
        /\ fpc \in {"invoke", "returned", "printed"}
        /\ fpc # "invoke" =>
              /\ result_set_by = "filter"
              /\ context_result.role = "assistant"
              /\ context_result.text =
                    "I cannot process requests containing prohibited words. Please try again."
              /\ context_result.metadata = {<<"filtered", "True">>}

\* C1 witness: an input spelling the word in mixed case was answered by the refusal
C1_Witness ==
    /\ fpc = "printed"
    /\ user_input = <<"x", "b", "A", "d", "W", "o", "r", "D", " ">>
    /\ context_result = blocked_message
    /\ llm_requests = <<>>

\* C2: when the input does not contain "badword" in any letter case, the filter
\* calls next exactly once and does not set context.result itself; the
\* invocation result is the value the chat function returned, never marked
\* filtered=True.
C2_PassedRunsOnce ==
    ~ContainsBadwordAnyCase(user_input) =>
        /\ next_calls = (IF fpc = "invoke" THEN 0 ELSE 1)
        /\ result_set_by # "filter"
        /\ fpc \in {"returned", "printed"} /\ printed # "An unexpected error occurred" =>
              /\ result_set_by = "function"
              /\ chat_return # NoMessage
              /\ context_result = chat_return
              /\ Len(llm_requests) = 1
              /\ ~truthy(dict_get(context_result.metadata, "filtered"))

\* C2 witness: a near miss ("bad word") went through to the service, whose
\* answer is the result
C2_Witness ==
    /\ fpc = "returned"
    /\ user_input = <<"b", "a", "d", " ", "w", "o", "r", "d">>
    /\ next_calls = 1
    /\ context_result.text = "The capital of France is Paris."

\* C3: for every invocation that returns normally, test_scenarios prints the
\* response as "Assistant Response (from Filter)" if and only if the filter
\* blocked the invocation (the input contains the forbidden word), and as
\* "Assistant Response (from LLM)" otherwise.
C3_LabelMatchesSource ==
    (fpc = "printed" /\ printed # "An unexpected error occurred") =>
        /\ printed \in {"Assistant Response (from Filter)", "Assistant Response (from LLM)"}
        /\ (printed = "Assistant Response (from Filter)") <=> (result_set_by = "filter")
        /\ (printed = "Assistant Response (from Filter)") <=> ContainsBadwordAnyCase(user_input)

\* C3 witness: the service answered a harmless input in the very words of the
\* refusal, and the response is still printed as coming from the LLM
C3_Witness ==
    /\ fpc = "printed"
    /\ ~ContainsBadwordAnyCase(user_input)
    /\ context_result.text = RefusalText
    /\ printed = "Assistant Response (from LLM)"

(***************************************************************************)
(* Claims about the vector store and the RAG query                         *)
(***************************************************************************)

\* the smaller of two numbers
Least(a, b) == IF a <= b THEN a ELSE b

\* search_documents ran in the last operation, called directly or by the RAG query
SearchRan ==
    \/ last_op.op = "search"
    \/ last_op.op = "rag" /\ last_op.ended = "returned"

\* C6: search_documents returns a list of at most top_k (record, score) pairs,
\* for every query and every content of the vector collection.
C6_AtMostTopK ==
    SearchRan =>
        /\ Len(search_ret) <= last_op.top_k
        /\ \A i \in 1..Len(search_ret) :
              /\ Len(search_ret[i]) = 2
              /\ search_ret[i][2] = score(last_op.query, search_ret[i][1])
              /\ \E j \in 1..Len(vector_collection.storage) :
                    vector_collection.storage[j] = search_ret[i][1]

\* C6 witness: a search with top_k = 1 over two stored records returned one pair
C6_Witness ==
    /\ last_op.op = "search"
    /\ last_op.top_k = 1
    /\ last_op.document_filter = None
    /\ Len(vector_collection.storage) = 2
    /\ Len(search_ret) = 1

\* C7: with a non-empty document_filter every returned record has that
\* document_name; with document_filter None or empty no document_name
\* restriction applies: the top_k best records of the whole collection return.
C7_FilterRestricts ==
    SearchRan =>
        /\ (last_op.document_filter # None /\ last_op.document_filter # "") =>
              \A i \in 1..Len(search_ret) :
                  search_ret[i][1].document_name = last_op.document_filter
        /\ (last_op.document_filter \in {None, ""} /\ last_op.embed_ok
                /\ vector_collection.kind = "collection") =>
              /\ Len(search_ret) = Least(last_op.top_k, Len(vector_collection.storage))
              /\ \A j \in 1..Len(vector_collection.storage) :
                    \/ \E i \in 1..Len(search_ret) :
                          search_ret[i][1] = vector_collection.storage[j]
                    \/ \A i \in 1..Len(search_ret) :
                          score(last_op.query, vector_collection.storage[j]) <= search_ret[i][2]

\* C7 witness: a search filtered by docA returned a docA record although a
\* record of docB scores higher for the query
C7_Witness ==
    /\ last_op.op = "search"
    /\ last_op.document_filter = "docA"
    /\ Len(search_ret) = 1
    /\ search_ret[1][1].document_name = "docA"
    /\ \E j \in 1..Len(vector_collection.storage) :
          /\ vector_collection.storage[j].document_name = "docB"
          /\ score(last_op.query, vector_collection.storage[j]) > search_ret[1][2]

\* the position of the call c in the list of collection calls, 0 when absent
CallIndex(log, c) ==
    IF \E i \in 1..Len(log) : log[i] = c
    THEN CHOOSE i \in 1..Len(log) : log[i] = c
    ELSE 0

\* C8: create_and_populate_vector_store wipes the collection (delete_collection,
\* then create_collection_if_not_exists) before any upsert; on return the
\* collection holds exactly one record per element of document_chunks and the
\* upsert gave back len(document_chunks) keys; with an empty document_chunks it
\* returns None without creating a collection.
C8_PopulatedExactly ==
    (last_op.op = "create" /\ last_op.ended = "returned") =>
        IF document_chunks = <<>>
        THEN /\ vector_collection = NoneCollection
             /\ sdk_calls = <<>>
        ELSE /\ vector_collection.kind = "collection"
             /\ Len(vector_collection.storage) = Len(document_chunks)
             /\ \A i \in 1..Len(document_chunks) :
                   Cardinality({j \in 1..Len(vector_collection.storage) :
                                   vector_collection.storage[j] = document_chunks[i]}) = 1
             /\ Len(upserted_keys) = Len(document_chunks)
             /\ 0 < CallIndex(sdk_calls, "delete_collection")
             /\ CallIndex(sdk_calls, "delete_collection")
                   < CallIndex(sdk_calls, "create_collection_if_not_exists")
             /\ CallIndex(sdk_calls, "create_collection_if_not_exists")
                   < CallIndex(sdk_calls, "upsert")

\* C8 witness: two chunks of the same content and document were stored as two records
C8_Witness ==
    /\ last_op.op = "create"
    /\ last_op.ended = "returned"
    /\ Len(document_chunks) = 2
    /\ document_chunks[1].content = document_chunks[2].content
    /\ document_chunks[1].document_name = document_chunks[2].document_name
    /\ Len(vector_collection.storage) = 2
    /\ Len(upserted_keys) = 2

\* the contents joined by the separator, in order
RECURSIVE JoinedContext(_)
JoinedContext(contents) ==
    IF Len(contents) <= 1 THEN contents
    ELSE <<Head(contents), "\n\n---\n\n">> \o JoinedContext(Tail(contents))

\* the pieces part occur in whole, side by side and before its end
OccursBeforeEnd(part, whole) ==
    \E i \in 1..(Len(whole) - Len(part)) : SubSeq(whole, i, i + Len(part) - 1) = part

\* C9: perform_rag_query sends the chat service a chat history of exactly two
\* messages, the system instruction first and one user message second; the user
\* message holds the contents of the retrieved chunks joined in the order
\* search_documents returned them, followed by the question, when a chunk was
\* retrieved, and the question with the no-context note when none was.
C9_RagChatHistory ==
    (last_op.op = "rag" /\ last_op.ended = "returned") =>
        /\ Len(rag_request) = 2
        /\ rag_request[1].role = "system"
        /\ rag_request[1].text = <<SystemMessage>>
        /\ rag_request[2].role = "user"
        /\ LET pieces   == rag_request[2].text
               contents == [i \in 1..Len(search_ret) |-> search_ret[i][1].content]
           IN  IF search_ret # <<>>
               THEN /\ OccursBeforeEnd(JoinedContext(contents), pieces)
                    /\ pieces[Len(pieces)] = last_op.query
                    /\ \A i \in 1..Len(pieces) : pieces[i] # NoContextNote
               ELSE /\ \E i \in 1..Len(pieces) : pieces[i] = last_op.query
                    /\ \E i \in 1..Len(pieces) : pieces[i] = NoContextNote
                    /\ \A i \in 1..Len(pieces) : pieces[i] \notin Contents

\* C9 witness: a RAG query retrieved c2 before c1 and sent them in that order
C9_Witness ==
    /\ last_op.op = "rag"
    /\ last_op.ended = "returned"
    /\ Len(search_ret) = 2
    /\ search_ret[1][1].content = "c2"
    /\ search_ret[2][1].content = "c1"
    /\ OccursBeforeEnd(<<"c2", "\n\n---\n\n", "c1">>, rag_request[2].text)

(***************************************************************************)
(* Further claims about the content filter and chunk_text                  *)
(***************************************************************************)

C13_StartIncreases ==
    (chunk_size >= 1 /\ overlap <= chunk_size \div 2) =>
        /\ \A i \in 1..(Len(starts) - 1) : starts[i] < starts[i + 1]
        /\ cpc = "loop" =>
              /\ starts # <<>> => starts[Len(starts)] < start
              /\ Len(chunks) <= start
              /\ start < Len(text)
              /\ Len(chunks) < MaxChunks
        /\ cpc = "done" =>
              starts[Len(starts)] + Len(chunks[Len(chunks)]) = Len(text)

\* C13 witness: a call with overlap = chunk_size // 2 ended after three
\* iterations that started at 0, 2 and 4
C13_Witness ==
    /\ cpc = "done"
    /\ chunk_size = 4
    /\ overlap = 2
    /\ starts = <<0, 2, 4>>
    /\ Len(text) = 7

\* C14: chunk_text terminates and start never decreases for every text and
\* every chunk_size >= 1 and 0 <= overlap < chunk_size, also when a chunk is cut
\* at a sentence end to a length not greater than overlap. The loop's course
\* depends on start alone, so it ends only if no iteration begins where an
\* earlier one began.
C14_TerminatesAnyOverlap ==
    (chunk_size >= 1 /\ overlap < chunk_size) =>
        /\ \A i \in 1..(Len(starts) - 1) : starts[i] <= starts[i + 1]
        /\ cpc = "loop" =>
              /\ starts # <<>> => starts[Len(starts)] <= start
              /\ \A i \in 1..Len(starts) : starts[i] # start
              /\ Len(chunks) < MaxChunks

\* the chunks put together again: the first chunk, then every later chunk
\* without its first ov characters
RECURSIVE Rejoined(_, _)
Rejoined(cs, ov) ==
    IF Len(cs) <= 1 THEN (IF cs = <<>> THEN <<>> ELSE cs[1])
    ELSE Rejoined(SubSeq(cs, 1, Len(cs) - 1), ov)
            \o SubSeq(cs[Len(cs)], ov + 1, Len(cs[Len(cs)]))

\* C15: for 0 <= overlap <= chunk_size // 2 chunk_text loses no text: every
\* chunk is a contiguous substring of text, every character position lies in a
\* chunk, the first chunk followed by every later chunk without its first
\* overlap characters is text again, and a text of at most chunk_size
\* characters gives exactly [text].
C15_NoTextLost ==
    (cpc = "done" /\ overlap <= chunk_size \div 2) =>
        /\ \A i \in 1..Len(chunks) :
              \E a \in 0..Len(text) : chunks[i] = SubSeq(text, a + 1, a + Len(chunks[i]))
        /\ \A p \in 1..Len(text) :
              \E i \in 1..Len(chunks) :
                  /\ starts[i] < p
                  /\ p <= starts[i] + Len(chunks[i])
                  /\ chunks[i][p - starts[i]] = text[p]
        /\ Rejoined(chunks, overlap) = text
        /\ Len(text) <= chunk_size => chunks = <<text>>

\* C15 witness: a text of seven characters was split in two chunks that
\* overlap by two characters, the first of them cut short at a sentence end
C15_Witness ==
    /\ cpc = "done"
    /\ overlap = 2
    /\ chunk_size = 5
    /\ Len(text) = 7
    /\ Len(chunks) = 2
    /\ Len(chunks[1]) = 4
    /\ Rejoined(chunks, overlap) = text

(***************************************************************************)
(* Claims about process_pdfs_from_folder                                   *)
(***************************************************************************)

\* whether a file name ends in ".pdf"
EndsWithPdf(name) ==
    /\ Len(name) >= Len(PdfSuffix)
    /\ SubSeq(name, Len(name) - Len(PdfSuffix) + 1, Len(name)) = PdfSuffix

FolderHasPdf == \E i \in 1..Len(folder.files) : EndsWithPdf(folder.files[i].name)

\* the sum of the per-page chunk counts logged
RECURSIVE SumCounts(_)
SumCounts(log) == IF log = <<>> THEN 0 ELSE Head(log).n + SumCounts(Tail(log))

\* the entry of the log the i-th chunk counted from entry j on belongs to
RECURSIVE EntryOf(_, _, _)
EntryOf(log, i, j) ==
    IF i <= log[j].n THEN j ELSE EntryOf(log, i - log[j].n, j + 1)

\* the chunk_index values, in list order, of the chunks named d of page p
IndexRun(d, p) ==
    LET sel == SelectSeq(pdf_chunks,
                         LAMBDA c : c.document_name = d /\ c.page_number = p)
    IN  [k \in 1..Len(sel) |-> sel[k].chunk_index]

\* <<0, 1, ..., n-1>>
CountUp(n) == [k \in 1..n |-> k - 1]

Triple(c) == <<c.document_name, c.page_number, c.chunk_index>>

\* the returned list is empty for a missing folder or one without *.pdf file
EmptyWithoutPdf ==
    (~folder.exists \/ ~FolderHasPdf) => pdf_chunks = <<>>

\* every chunk carries the stem of its source file and the number, at least
\* 1, of its source page; the total is the sum of the per-page chunk counts
ChunksNameTheirSource ==
    /\ Len(pdf_chunks) = SumCounts(page_log)
    /\ \A i \in 1..Len(pdf_chunks) :
          LET e == page_log[EntryOf(page_log, i, 1)]
          IN  /\ pdf_chunks[i].document_name = stem(e.file)
              /\ pdf_chunks[i].page_number = e.page_number
              /\ pdf_chunks[i].page_number >= 1
              /\ \E k \in 1..Len(folder.files) :
                    folder.files[k].name = e.file /\ EndsWithPdf(e.file)

\* per (document_name, page_number) the chunk_index values are 0, 1, ..., n-1
\* in order, and no triple occurs twice
TriplesCountUp ==
    /\ \A i \in 1..Len(pdf_chunks) :
          LET run == IndexRun(pdf_chunks[i].document_name, pdf_chunks[i].page_number)
          IN  run = CountUp(Len(run))
    /\ \A i, j \in 1..Len(pdf_chunks) :
          Triple(pdf_chunks[i]) = Triple(pdf_chunks[j]) => i = j

\* the PDF files found carry pairwise different stems
DistinctStems ==
    \A i, j \in 1..Len(pdf_files) :
        stem(pdf_files[i].name) = stem(pdf_files[j].name) => i = j

\* C11 as stated: process_pdfs_from_folder returns an empty list when the
\* folder does not exist or holds no *.pdf file; otherwise every chunk carries
\* the stem of its source file and a page_number >= 1, per (document, page) the
\* chunk_index values are 0, 1, ..., n-1 in order, so the triple
\* (document_name, page_number, chunk_index) is unique across the list, and the
\* total is the sum of the per-page chunk counts.
C11_TriplesUnique ==
    ppc = "done" =>
        /\ EmptyWithoutPdf
        /\ ChunksNameTheirSource
        /\ TriplesCountUp

\* C11 amended: as above, but the chunk_index values count up and the triple
\* is unique provided the PDF files of the folder carry pairwise different
\* stems; in any case the chunks of one source page are consecutive and
\* numbered 0, 1, ..., n-1.
C11_TriplesUniqueForDistinctStems ==
    ppc = "done" =>
        /\ EmptyWithoutPdf
        /\ ChunksNameTheirSource
        /\ \A i \in 1..Len(pdf_chunks) :
              LET j == EntryOf(page_log, i, 1)
              IN  pdf_chunks[i].chunk_index =
                      i - 1 - SumCounts(SubSeq(page_log, 1, j - 1))
        /\ DistinctStems => TriplesCountUp

\* C11 witness: two PDF files with different stems were processed; the first
\* has a blank page 1 and a page 2 of three chunks, the second one short page
C11_Witness ==
    /\ ppc = "done"
    /\ Len(pdf_files) = 2
    /\ DistinctStems
    /\ Len(page_log) = 2
    /\ page_log[1].page_number = 2 /\ page_log[1].n = 3
    /\ page_log[2].page_number = 1 /\ page_log[2].n = 1
    /\ Len(pdf_chunks) = 4
    /\ pdf_chunks[3].chunk_index = 2

(***************************************************************************)
(* Claims about Notebook 2                                                 *)
(***************************************************************************)

\* the roles of the messages of a chat history, in order
Roles(history) == [i \in 1..Len(history) |-> history[i].role]

\* whether every item of the message is of the kind given
OnlyItems(message, kind) ==
    /\ message.items # <<>>
    /\ \A k \in 1..Len(message.items) : message.items[k].kind = kind

\* every function result of a TOOL message answers a function call, of the
\* same id and function name, of the ASSISTANT message just before it
ToolResultsFollowCalls(history) ==
    \A i \in 1..Len(history) :
        \A k \in 1..Len(history[i].items) :
            (history[i].role = "tool" /\ history[i].items[k].kind = "function_result") =>
                /\ i > 1
                /\ history[i - 1].role = "assistant"
                /\ \E c \in 1..Len(history[i - 1].items) :
                      /\ history[i - 1].items[c].kind = "function_call"
                      /\ history[i - 1].items[c].id = history[i].items[k].id
                      /\ history[i - 1].items[c].name = history[i].items[k].name

\* C16: the rich chat history ends with exactly five messages, in the order
\* SYSTEM, USER, ASSISTANT (function call), TOOL (function result), ASSISTANT
\* (reply), and every TOOL function-result message comes after an ASSISTANT
\* function-call message of the same id and function name.
C16_RichHistoryOrder ==
    /\ ToolResultsFollowCalls(nb_chat_history)
    /\ nb_cell = "end" =>
          /\ Len(nb_chat_history) = 5
          /\ Roles(nb_chat_history) = <<"system", "user", "assistant", "tool", "assistant">>
          /\ OnlyItems(nb_chat_history[3], "function_call")
          /\ OnlyItems(nb_chat_history[4], "function_result")
          /\ OnlyItems(nb_chat_history[5], "text")
          /\ nb_chat_history[5] = nb_response.assistant_response
          /\ \E k \in 0..Len(nb_outputs) :
                /\ Len(nb_outputs) = k + 5
                /\ \A i \in 1..5 :
                      /\ nb_outputs[k + i].cell = "display"
                      /\ nb_outputs[k + i].text = nb_chat_history[i].role

\* C16 witness: the run reached its end after a streamed answer of two chunks
\* and the reply "reply2", which is the fifth message of the chat history
C16_Witness ==
    /\ nb_cell = "end"
    /\ Len(nb_chat_history) = 5
    /\ nb_chat_history[4].role = "tool"
    /\ content(nb_chat_history[5]) = "reply2"
    /\ Len(nb_outputs) = 9

(***************************************************************************)
(* Claims about Notebook 4                                                 *)
(***************************************************************************)

\* whether the sequence s begins with the sequence prefix
StartsWith(s, prefix) ==
    /\ Len(prefix) <= Len(s)
    /\ SubSeq(s, 1, Len(prefix)) = prefix

\* C17: after set_up_metrics an instrument is exported if and only if its
\* name starts with "semantic_kernel"; every other instrument is dropped,
\* although the drop view "*" matches the semantic_kernel instruments too.
C17_OnlySemanticKernelExported ==
    meter_provider.kind = "sdk" =>
        /\ DropAllView \in {meter_provider.views[i] : i \in 1..Len(meter_provider.views)}
        /\ \A n \in InstrumentNames : fnmatch(n, DropAllView.instrument_name)
        /\ exported.names \subseteq exported.collected
        /\ \A n \in exported.collected :
              n \in exported.names <=> StartsWith(n, SemanticKernel)

\* C17 witness: an export collected a semantic_kernel instrument and two
\* others and kept the first only
C17_Witness ==
    /\ meter_provider.kind = "sdk"
    /\ exported.collected = { SemanticKernel \o <<".", "f">>,
                              <<"x">> \o SemanticKernel,
                              <<"h", "t", "t", "p">> }
    /\ exported.names = { SemanticKernel \o <<".", "f">> }

====
